---- MODULE Spec2Model ----
(***************************************************************************)
(* WorkflowSchedule: a workflow graph (jobs, communications) and the two   *)
(* list schedulers built on it.                                            *)
(*   src/src/workflow : criticality order, best-fit placement              *)
(*   src/workflow     : makespan-weight order, earliest-machine placement  *)
(* Job* values are addresses 1, 2, ... in allocation order, nullptr is     *)
(* NULL.  The unordered_map keyed by name is a sequence of (name, ptr)     *)
(* pairs in its iteration order; a map keyed by Job* is a function and is  *)
(* iterated in address order.  Jobs may be added in any role (an edge may  *)
(* run from a later job to an earlier one), so every arrangement of the    *)
(* iteration order against the shape of the graph is reached.              *)
(***************************************************************************)
EXTENDS Integers, Sequences, FiniteSets, TLC

\* ------------------------------------------------------------- bounds
MaxJobs == 3
MaxComms == 2
MaxTime == 1
MaxMachines == 2
MaxCalls == 2
\* the jobs of the universe Fork
MaxForkJobs == 4

NULL == 0

NameSeq == <<"A", "B", "C", "D", "E">>

VARIABLES
    dom,                \* the universe the caller's arguments are drawn from
    jobs,               \* WorkflowGraph::jobs, in iteration order
    jobObjs,            \* the Job objects on the heap, by address
    communications,     \* WorkflowGraph::communications
    numMachines,        \* WorkflowSchedule::numMachines
    pc,                 \* where the caller / the schedule() call is
    variant,            \* which scheduler class schedule() runs
    inDegrees,          \* topologicalSort: inDegrees
    pq,                 \* topologicalSort: the priority_queue's vector
    jobCriticalWeights, \* JobCriticalityCompare::jobCriticalWeights
    topOrder,           \* topologicalSort / schedule: topOrder
    cursor,             \* schedule: position of the for loop in topOrder
    machineFinishTime,  \* schedule: machineFinishTime
    jobFinishTime,      \* schedule: jobFinishTime
    job2machineMap,     \* schedule: job2machineMap
    scheduleOrder,      \* schedule: scheduleOrder
    returned            \* what the schedule() calls made so far returned

graphVars == <<jobs, jobObjs, communications>>
runVars == <<inDegrees, pq, jobCriticalWeights, topOrder, cursor,
             machineFinishTime, jobFinishTime, job2machineMap, scheduleOrder>>
vars == <<dom, jobs, jobObjs, communications, numMachines, pc, variant,
          inDegrees, pq, jobCriticalWeights, topOrder, cursor,
          machineFinishTime, jobFinishTime, job2machineMap, scheduleOrder,
          returned>>

\* ------------------------------------------------------------- inputs
\* The universe the caller draws its arguments from.
\*   Bounded: up to MaxJobs jobs, every time in 0..MaxTime.
\*   Example: the two jobs and the times of the worked examples,
\*            A(5), B(3) with communication time 2 or 10.
\*   Signed:  times that may be negative (addJob and
\*            addCommunication take any int).
\*   Misuse:  a caller that repeats a job name, names a job it never added,
\*            or asks for no machines or a negative number of them.
\*   Fork:    up to MaxForkJobs jobs that take 1 or 2, communication that
\*            takes no time, MaxMachines machines.
\* anyPos: a new name may take any place in the iteration order of jobs.
\* maxObjects: the number of addJob calls.
Bounded ==
    [id |-> "bounded", execTimes |-> 0..MaxTime, commTimes |-> 0..MaxTime,
     maxNames |-> MaxJobs, anyPos |-> FALSE, unknown |-> FALSE, duplicate |-> FALSE,
     machineCounts |-> 1..MaxMachines, maxObjects |-> MaxJobs]

Example ==
    [id |-> "example", execTimes |-> {3, 5}, commTimes |-> {2, 10},
     maxNames |-> 2, anyPos |-> TRUE, unknown |-> FALSE, duplicate |-> FALSE,
     machineCounts |-> 1..MaxMachines, maxObjects |-> MaxJobs]

Signed ==
    [id |-> "signed", execTimes |-> {-1, 1}, commTimes |-> {-1, 1},
     maxNames |-> MaxJobs, anyPos |-> FALSE, unknown |-> FALSE, duplicate |-> FALSE,
     machineCounts |-> 1..MaxMachines, maxObjects |-> MaxJobs]

Misuse ==
    [id |-> "misuse", execTimes |-> {1}, commTimes |-> {1},
     maxNames |-> 2, anyPos |-> TRUE, unknown |-> TRUE, duplicate |-> TRUE,
     machineCounts |-> -1..MaxMachines, maxObjects |-> MaxJobs]

Fork ==
    [id |-> "fork", execTimes |-> {1, 2}, commTimes |-> {0},
     maxNames |-> MaxForkJobs, anyPos |-> FALSE, unknown |-> FALSE, duplicate |-> FALSE,
     machineCounts |-> {MaxMachines}, maxObjects |-> MaxForkJobs]

Variants == {"criticality", "makespan"}

Min(a, b) == IF a < b THEN a ELSE b

Max(a, b) == IF a < b THEN b ELSE a

\* binds a value once: With(e, LAMBDA x : body) is LET x == e IN body
With(val, F(_)) == F(val)

\* ------------------------------------------------------------- maps
EmptyMap == [x \in {} |-> 0]

\* std::unordered_map::operator[] read of a possibly absent int value
Get(m, k) == IF k \in DOMAIN m THEN m[k] ELSE 0

Put(m, k, v) == [x \in DOMAIN m \cup {k} |-> IF x = k THEN v ELSE m[x]]

InsertAt(s, pos, e) == SubSeq(s, 1, pos - 1) \o <<e>> \o SubSeq(s, pos, Len(s))

RECURSIVE SeqOfSet(_)
\* the keys of a Job*-keyed map in iteration (address) order
SeqOfSet(S) ==
    IF S = {} THEN <<>>
    ELSE LET m == CHOOSE x \in S : \A y \in S : x <= y
         IN <<m>> \o SeqOfSet(S \ {m})

\* ------------------------------------------------------------- graph
JobNames(js) == {js[i].name : i \in DOMAIN js}

JobPtrs(js) == {js[i].ptr : i \in DOMAIN js}

HasName(js, name) == name \in JobNames(js)

Lookup(js, name) == js[CHOOSE i \in DOMAIN js : js[i].name = name].ptr

\* jobs[name] as an lvalue: inserts (name, nullptr) when name is absent;
\* pos is the place the new node takes in the iteration order
Touch(js, name, pos) ==
    IF HasName(js, name) THEN js
    ELSE InsertAt(js, Min(pos, Len(js) + 1), [name |-> name, ptr |-> NULL])

Assign(js, name, p) ==
    [i \in DOMAIN js |-> IF js[i].name = name THEN [js[i] EXCEPT !.ptr = p] ELSE js[i]]

\* communications[job] as an lvalue: inserts an empty vector when absent
TouchComm(cs, job) == IF job \in DOMAIN cs THEN cs ELSE Put(cs, job, <<>>)

RECURSIVE Flatten(_, _)
\* every stored Communication, vector by vector
Flatten(cs, keys) ==
    IF keys = <<>> THEN <<>> ELSE cs[Head(keys)] \o Flatten(cs, Tail(keys))

AllComms(cs) == Flatten(cs, SeqOfSet(DOMAIN cs))

\* new Job(...): the next address
NewAddr == Cardinality(DOMAIN jobObjs) + 1

\* WorkflowGraph::addJob
AddJob(name, executionTime, pos) ==
    /\ pc = "build"
    /\ NewAddr <= dom.maxObjects
    /\ LET js == Touch(jobs, name, pos)
       IN /\ jobs' = Assign(js, name, NewAddr)
          /\ jobObjs' = Put(jobObjs, NewAddr, [name |-> name, executionTime |-> executionTime])
          /\ communications' = Put(communications, NewAddr, <<>>)
    /\ UNCHANGED <<dom, numMachines, pc, variant, runVars, returned>>

\* WorkflowGraph::addCommunication
AddCommunication(fromJobName, toJobName, commTime, pos1, pos2) ==
    /\ pc = "build"
    /\ Len(AllComms(communications)) < MaxComms
    /\ LET js == Touch(Touch(jobs, fromJobName, pos1), toJobName, pos2)
           fromJob == Lookup(js, fromJobName)
           toJob == Lookup(js, toJobName)
           cs == TouchComm(communications, fromJob)
           comm == [fromJob |-> fromJob, toJob |-> toJob, commTime |-> commTime]
       IN /\ jobs' = js
          /\ communications' = [cs EXCEPT ![fromJob] = Append(@, comm)]
    /\ UNCHANGED <<dom, jobObjs, numMachines, pc, variant, runVars, returned>>

\* WorkflowSchedule::WorkflowSchedule
Construct(_numMachines) ==
    /\ pc = "build"
    /\ numMachines' = _numMachines
    /\ pc' = "idle"
    /\ UNCHANGED <<dom, graphVars, variant, runVars, returned>>

\* ------------------------------------------------------------- caller
\* names are opaque: the caller uses those in the map (when the universe
\* lets it repeat one) and the next unused one
FreshNames ==
    IF Len(jobs) < dom.maxNames THEN {NameSeq[Len(jobs) + 1]} ELSE {}

AddJobNames == FreshNames \cup (IF dom.duplicate THEN JobNames(jobs) ELSE {})

EdgeNames == JobNames(jobs) \cup (IF dom.unknown THEN FreshNames ELSE {})

Positions == IF dom.anyPos THEN 1..(Len(jobs) + 1) ELSE {Len(jobs) + 1}

EdgePositions ==
    IF dom.anyPos /\ dom.unknown THEN 1..(Len(jobs) + 2) ELSE {Len(jobs) + 2}

\* ------------------------------------------------------------- weights
\* Every result below carries ub: the evaluation dereferenced nullptr or
\* recursed without end (undefined behaviour: the call does not return).

\* WorkflowGraph::getOutCommunications (read; the insertion of an absent
\* key is made by the actions that call it)
GetOutCommunications(job) ==
    IF job \in DOMAIN communications THEN communications[job] ELSE <<>>

\* WorkflowGraph::getSuccessors
GetSuccessors(job) ==
    LET out == GetOutCommunications(job)
    IN [i \in 1..Len(out) |-> out[i].toJob]

\* WorkflowGraph::getJobMaxMakespan
GetJobMaxMakespan(job) ==
    LET out == GetOutCommunications(job)
        RECURSIVE Loop(_, _)
        Loop(i, time) ==
            IF i > Len(out) THEN time
            ELSE Loop(i + 1, IF out[i].commTime > time THEN out[i].commTime ELSE time)
    IN IF job = NULL THEN [w |-> 0, ub |-> TRUE]
       ELSE [w |-> Loop(1, 0) + jobObjs[job].executionTime, ub |-> FALSE]

RECURSIVE GetJobCriticalWeight(_, _, _)
RECURSIVE CriticalLoop(_, _, _, _, _)
\* the job's own execution time left out of its weight
GetJobCriticalWeight_NoExec(job, memo, path) ==
    IF job \in DOMAIN memo THEN [w |-> memo[job], memo |-> memo, ub |-> FALSE]
    ELSE IF job = NULL \/ job \in path THEN [w |-> 0, memo |-> memo, ub |-> TRUE]
    ELSE With(CriticalLoop(job, 1, 0, memo, path \cup {job}), LAMBDA r :
             IF r.ub THEN r
             ELSE [w |-> r.w, memo |-> Put(r.memo, job, r.w), ub |-> FALSE])

\* JobCriticalityCompare::getJobCriticalWeight; memo is jobCriticalWeights,
\* path the jobs whose call is still on the stack
GetJobCriticalWeight(job, memo, path) ==
    IF job \in DOMAIN memo THEN [w |-> memo[job], memo |-> memo, ub |-> FALSE]
    ELSE IF job = NULL \/ job \in path THEN [w |-> 0, memo |-> memo, ub |-> TRUE]
    ELSE With(CriticalLoop(job, 1, 0, memo, path \cup {job}), LAMBDA r :
             IF r.ub THEN r
             ELSE [w |-> r.w + jobObjs[job].executionTime,
                   memo |-> Put(r.memo, job, r.w + jobObjs[job].executionTime),
                   ub |-> FALSE])

\* the for loop of getJobCriticalWeight over the outgoing communications
CriticalLoop(job, i, jobCriticalWeight, memo, path) ==
    IF i > Len(GetOutCommunications(job))
    THEN [w |-> jobCriticalWeight, memo |-> memo, ub |-> FALSE]
    ELSE With(GetJobCriticalWeight(GetOutCommunications(job)[i].toJob, memo, path),
              LAMBDA r :
             IF r.ub THEN r
             ELSE CriticalLoop(job, i + 1,
                      Max(jobCriticalWeight, GetOutCommunications(job)[i].commTime + r.w),
                      r.memo, path))

\* the weight the comparator of the running scheduler gives a job
PriorityWeight(v, job, memo) ==
    IF v = "criticality" THEN GetJobCriticalWeight(job, memo, {})
    ELSE [w |-> GetJobMaxMakespan(job).w, memo |-> memo,
          ub |-> GetJobMaxMakespan(job).ub]

\* the comparison turned round: weight(j1) > weight(j2)
Less_Greater(a, b) ==
    IF a.ub THEN [lt |-> FALSE, memo |-> a.memo, ub |-> TRUE]
    ELSE IF b.ub THEN [lt |-> FALSE, memo |-> b.memo, ub |-> TRUE]
    ELSE [lt |-> a.w > b.w, memo |-> b.memo, ub |-> FALSE]

\* operator(): weight(j1) < weight(j2), given the two evaluations
Less(a, b) ==
    IF a.ub THEN [lt |-> FALSE, memo |-> a.memo, ub |-> TRUE]
    ELSE IF b.ub THEN [lt |-> FALSE, memo |-> b.memo, ub |-> TRUE]
    ELSE [lt |-> a.w < b.w, memo |-> b.memo, ub |-> FALSE]

\* JobCriticalityCompare::operator() / JobMakespanCompare::operator()
Compare(v, j1, j2, memo) ==
    With(PriorityWeight(v, j1, memo), LAMBDA a :
        IF a.ub THEN Less(a, a) ELSE Less(a, PriorityWeight(v, j2, a.memo)))

\* ------------------------------------------------------------- heap
\* std::priority_queue over a vector c (GNU libstdc++ heap algorithms);
\* indices are those of the C++ code, c[i + 1] is *(first + i).
RECURSIVE PushHeapAt(_, _, _, _, _, _)
\* std::__push_heap
PushHeapAt(v, c, holeIndex, topIndex, value, memo) ==
    IF holeIndex > topIndex
    THEN With(Compare(v, c[(holeIndex - 1) \div 2 + 1], value, memo), LAMBDA cmp :
             IF cmp.ub THEN [c |-> c, memo |-> cmp.memo, ub |-> TRUE]
             ELSE IF cmp.lt
                  THEN PushHeapAt(v, [c EXCEPT ![holeIndex + 1] = c[(holeIndex - 1) \div 2 + 1]],
                                  (holeIndex - 1) \div 2, topIndex, value, cmp.memo)
                  ELSE [c |-> [c EXCEPT ![holeIndex + 1] = value],
                        memo |-> cmp.memo, ub |-> FALSE])
    ELSE [c |-> [c EXCEPT ![holeIndex + 1] = value], memo |-> memo, ub |-> FALSE]

\* priority_queue::push: c.push_back(x); std::push_heap(c.begin(), c.end(), comp)
PqPush(v, c, value, memo) ==
    PushHeapAt(v, Append(c, value), Len(c), 0, value, memo)

\* std::__adjust_heap: the child the hole moves to, the larger of the two
\* (the right one on a tie)
LargerChild(secondChild, cmp) == IF cmp.lt THEN secondChild - 1 ELSE secondChild

RECURSIVE AdjustDown(_, _, _, _, _, _)
\* the while loop of std::__adjust_heap; secondChild on entry is the hole
AdjustDown(v, c, holeIndex, secondChild, len, memo) ==
    IF secondChild < (len - 1) \div 2
    THEN With(Compare(v, c[2 * (secondChild + 1) + 1], c[2 * (secondChild + 1)], memo),
              LAMBDA cmp :
             IF cmp.ub
             THEN [c |-> c, holeIndex |-> holeIndex, secondChild |-> secondChild,
                   memo |-> cmp.memo, ub |-> TRUE]
             ELSE AdjustDown(v,
                      [c EXCEPT ![holeIndex + 1] =
                                    c[LargerChild(2 * (secondChild + 1), cmp) + 1]],
                      LargerChild(2 * (secondChild + 1), cmp),
                      LargerChild(2 * (secondChild + 1), cmp), len, cmp.memo))
    ELSE [c |-> c, holeIndex |-> holeIndex, secondChild |-> secondChild,
          memo |-> memo, ub |-> FALSE]

\* std::__adjust_heap after its while loop: a last, lone left child, then
\* std::__push_heap of the value
AdjustTail(v, d, topIndex, len, value) ==
    IF d.ub THEN [c |-> d.c, memo |-> d.memo, ub |-> TRUE]
    ELSE IF len % 2 = 0 /\ d.secondChild = (len - 2) \div 2
         THEN PushHeapAt(v, [d.c EXCEPT ![d.holeIndex + 1] = d.c[2 * (d.secondChild + 1)]],
                         2 * (d.secondChild + 1) - 1, topIndex, value, d.memo)
         ELSE PushHeapAt(v, d.c, d.holeIndex, topIndex, value, d.memo)

\* std::__adjust_heap
AdjustHeap(v, c, holeIndex, len, value, memo) ==
    AdjustTail(v, AdjustDown(v, c, holeIndex, holeIndex, len, memo), holeIndex, len, value)

\* c.pop_back() on the outcome of std::pop_heap
PopBack(r) == [c |-> SubSeq(r.c, 1, Len(r.c) - 1), memo |-> r.memo, ub |-> r.ub]

\* priority_queue::pop: std::pop_heap(c.begin(), c.end(), comp); c.pop_back()
PqPop(v, c, memo) ==
    IF Len(c) > 1
    THEN PopBack(AdjustHeap(v, [c EXCEPT ![Len(c)] = c[1]], 0, Len(c) - 1, c[Len(c)], memo))
    ELSE [c |-> <<>>, memo |-> memo, ub |-> FALSE]

\* ------------------------------------------------------------- sort
\* WorkflowGraph::getIndegrees
GetIndegrees ==
    LET all == AllComms(communications)
        keys == JobPtrs(jobs) \cup {all[i].toJob : i \in DOMAIN all}
    IN [p \in keys |-> Cardinality({i \in DOMAIN all : all[i].toJob = p})]

\* an iteration order that does not stay the same from one call to the next
InDegreeKeys_Unstable(deg) ==
    IF Len(returned) % 2 = 0 THEN SeqOfSet(DOMAIN deg)
    ELSE [i \in 1..Cardinality(DOMAIN deg) |->
             SeqOfSet(DOMAIN deg)[Cardinality(DOMAIN deg) + 1 - i]]

\* the order in which topologicalSort iterates inDegrees
InDegreeKeys(deg) == SeqOfSet(DOMAIN deg)

\* a job taken as ready while one predecessor is still to come
IsReady_Early(deg, job) == deg[job] <= 1

\* topologicalSort: if (inDegrees[job] == 0)
IsReady(deg, job) == deg[job] = 0

RECURSIVE SeedLoop(_, _, _, _, _)
\* topologicalSort: push every job of in-degree 0, in the order inDegrees
\* is iterated
SeedLoop(v, deg, keys, c, memo) ==
    IF keys = <<>> THEN [c |-> c, memo |-> memo, ub |-> FALSE]
    ELSE IF IsReady(deg, Head(keys))
         THEN With(PqPush(v, c, Head(keys), memo), LAMBDA r :
                  IF r.ub THEN r ELSE SeedLoop(v, deg, Tail(keys), r.c, r.memo))
         ELSE SeedLoop(v, deg, Tail(keys), c, memo)

\* an in-degree that steps over zero
Decrement_Twice(deg, job) == Put(deg, job, Get(deg, job) - 2)

\* topologicalSort: inDegrees[job]--
Decrement(deg, job) == Put(deg, job, Get(deg, job) - 1)

RECURSIVE RelaxLoop(_, _, _, _, _, _)
\* topologicalSort: the for loop over the successors of the emitted job
RelaxLoop(v, succ, i, deg, c, memo) ==
    IF i > Len(succ) THEN [deg |-> deg, c |-> c, memo |-> memo, ub |-> FALSE]
    ELSE IF IsReady(Decrement(deg, succ[i]), succ[i])
         THEN With(PqPush(v, c, succ[i], memo), LAMBDA r :
                  IF r.ub THEN [deg |-> deg, c |-> r.c, memo |-> r.memo, ub |-> TRUE]
                  ELSE RelaxLoop(v, succ, i + 1, Decrement(deg, succ[i]), r.c, r.memo))
         ELSE RelaxLoop(v, succ, i + 1, Decrement(deg, succ[i]), c, memo)

\* schedule(): machineFinishTime(numMachines, 0)
InitialMachineFinishTime == [m \in 1..numMachines |-> 0]

\* the call does not return: undefined behaviour reached, or an exception
\* nothing catches
Crash ==
    /\ pc' = "crashed"
    /\ UNCHANGED runVars

\* topologicalSort returns: its locals die, schedule() sets up its own;
\* std::vector<int>(numMachines, 0) throws std::length_error when
\* numMachines, converted to size_t, is negative
EnterPlacement(order) ==
    IF numMachines < 0 THEN Crash
    ELSE /\ topOrder' = order
         /\ inDegrees' = EmptyMap
         /\ pq' = <<>>
         /\ jobCriticalWeights' = EmptyMap
         /\ cursor' = 1
         /\ machineFinishTime' = InitialMachineFinishTime
         /\ jobFinishTime' = EmptyMap
         /\ job2machineMap' = EmptyMap
         /\ scheduleOrder' = <<>>
         /\ pc' = "placing"

\* topologicalSort goes on with the queue r.c, or is over
ContinueSort(deg, r, order) ==
    IF r.ub THEN Crash
    ELSE IF r.c = <<>> THEN EnterPlacement(order)
    ELSE /\ inDegrees' = deg
         /\ pq' = r.c
         /\ jobCriticalWeights' = r.memo
         /\ topOrder' = order
         /\ pc' = "sorting"
         /\ UNCHANGED <<cursor, machineFinishTime, jobFinishTime,
                        job2machineMap, scheduleOrder>>

\* schedule() is called: topologicalSort up to its while loop
StartSchedule(v) ==
    /\ pc = "idle"
    /\ Len(returned) < MaxCalls
    /\ variant' = v
    /\ ContinueSort(GetIndegrees,
                    SeedLoop(v, GetIndegrees, InDegreeKeys(GetIndegrees), <<>>, EmptyMap),
                    <<>>)
    /\ UNCHANGED <<dom, graphVars, numMachines, returned>>

\* the while loop body after pq.pop(): emit front, relax its successors
AfterPop(front, popped) ==
    IF popped.ub THEN Crash
    ELSE With(RelaxLoop(variant, GetSuccessors(front), 1, inDegrees, popped.c, popped.memo),
              LAMBDA r : ContinueSort(r.deg, r, Append(topOrder, front)))

\* one round of the while loop of topologicalSort
SortStep ==
    /\ pc = "sorting"
    /\ communications' = TouchComm(communications, pq[1])
    /\ AfterPop(pq[1], PqPop(variant, pq, jobCriticalWeights))
    /\ UNCHANGED <<dom, jobs, jobObjs, numMachines, variant, returned>>

\* ------------------------------------------------------------- place
RECURSIVE InCommsFrom(_, _)
\* WorkflowGraph::getInCommunications: jobs in iteration order, each job's
\* outgoing vector in order
InCommsFrom(js, job) ==
    IF js = <<>> THEN <<>>
    ELSE SelectSeq(GetOutCommunications(Head(js).ptr), LAMBDA comm : comm.toJob = job)
         \o InCommsFrom(Tail(js), job)

GetInCommunications(job) == InCommsFrom(jobs, job)

\* a lookup that reads communications[nullptr] as well
TouchAll_Null(cs, ptrs) ==
    [p \in DOMAIN cs \cup ptrs \cup {NULL} |-> IF p \in DOMAIN cs THEN cs[p] ELSE <<>>]

\* getInCommunications reads communications[jpair.second] for every job
TouchAll(cs, ptrs) == [p \in DOMAIN cs \cup ptrs |-> IF p \in DOMAIN cs THEN cs[p] ELSE <<>>]

\* the communication time left out
PredecessorBound_NoComm(machine, comm, earliestStartTime) ==
    IF machine = Get(job2machineMap, comm.fromJob) THEN earliestStartTime
    ELSE Max(earliestStartTime, Get(jobFinishTime, comm.fromJob))

\* the communication time charged on the predecessor's own machine too
PredecessorBound_NoSkip(machine, comm, earliestStartTime) ==
    Max(earliestStartTime, Get(jobFinishTime, comm.fromJob) + comm.commTime)

\* best-fit schedule(): one predecessor's bound on the start on `machine`
\* (a predecessor placed on the same machine is skipped)
PredecessorBound(machine, comm, earliestStartTime) ==
    IF machine = Get(job2machineMap, comm.fromJob) THEN earliestStartTime
    ELSE Max(earliestStartTime, Get(jobFinishTime, comm.fromJob) + comm.commTime)

\* the machine's load left out
EarliestStartTime_NoLoad(machine, job) ==
    LET in == GetInCommunications(job)
        RECURSIVE Loop(_, _)
        Loop(i, earliestStartTime) ==
            IF i > Len(in) THEN earliestStartTime
            ELSE Loop(i + 1, PredecessorBound(machine, in[i], earliestStartTime))
    IN Loop(1, 0)

\* best-fit schedule(): the earliest start of job on machine (0-based)
EarliestStartTime(machine, job) ==
    LET in == GetInCommunications(job)
        RECURSIVE Loop(_, _)
        Loop(i, earliestStartTime) ==
            IF i > Len(in) THEN earliestStartTime
            ELSE Loop(i + 1, PredecessorBound(machine, in[i], earliestStartTime))
    IN Loop(1, machineFinishTime[machine + 1])

\* the start left out of the finish
EarliestFinishTime_NoStart(earliestStartTime, job) == jobObjs[job].executionTime

\* best-fit schedule(): earliestFinishTime
EarliestFinishTime(earliestStartTime, job) ==
    earliestStartTime + jobObjs[job].executionTime

\* machines numbered from 1 in the record
Candidate_OneBased(job, machine) ==
    LET earliestStartTime == EarliestStartTime(machine, job)
    IN [job |-> job, machineId |-> machine + 1,
        scheduleTime |-> machineFinishTime[machine + 1],
        startTime |-> earliestStartTime,
        finishTime |-> EarliestFinishTime(earliestStartTime, job)]

\* best-fit schedule(): the ScheduledJob built for one machine
Candidate(job, machine) ==
    LET earliestStartTime == EarliestStartTime(machine, job)
    IN [job |-> job, machineId |-> machine,
        scheduleTime |-> machineFinishTime[machine + 1],
        startTime |-> earliestStartTime,
        finishTime |-> EarliestFinishTime(earliestStartTime, job)]

\* best-fit schedule(): candidateSchedules
CandidateSchedules(job) == [i \in 1..numMachines |-> Candidate(job, i - 1)]

\* the comparison turned round: the latest finish wins
Better_Latest(bestSchedule, sch) == bestSchedule.finishTime < sch.finishTime

\* a later candidate winning a tie
Better_OrEqual(bestSchedule, sch) == bestSchedule.finishTime >= sch.finishTime

\* best-fit schedule(): if (bestSchedule.finishTime > sch->finishTime)
Better(bestSchedule, sch) == bestSchedule.finishTime > sch.finishTime

\* best-fit schedule(): bestSchedule is a reference to the front candidate,
\* which each better candidate is copied into
SelectBest(candidateSchedules) ==
    LET RECURSIVE Loop(_, _)
        Loop(cs, i) ==
            IF i > Len(cs) THEN cs[1]
            ELSE Loop(IF Better(cs[1], cs[i]) THEN [cs EXCEPT ![1] = cs[i]] ELSE cs, i + 1)
    IN Loop(candidateSchedules, 1)

\* earliest-machine WorkflowSchedule::getEarliestMachine (0-based)
GetEarliestMachine(mft) ==
    LET RECURSIVE Loop(_, _)
        Loop(i, earliestMachine) ==
            IF i >= Len(mft) THEN earliestMachine
            ELSE Loop(i + 1, IF mft[i + 1] < mft[earliestMachine + 1] THEN i
                             ELSE earliestMachine)
    IN Loop(1, 0)

\* earliest-machine schedule(): the start of job on the earliest machine
\* (every predecessor's communication time is added)
EarliestMachineStart(earliestMachine, job) ==
    LET in == GetInCommunications(job)
        RECURSIVE Loop(_, _)
        Loop(i, earliestStartTime) ==
            IF i > Len(in) THEN earliestStartTime
            ELSE Loop(i + 1, Max(earliestStartTime,
                                 Get(jobFinishTime, in[i].fromJob) + in[i].commTime))
    IN Loop(1, machineFinishTime[earliestMachine + 1])

\* one round of the for loop of best-fit schedule()
PlaceBestFit(job) ==
    LET bestSchedule == SelectBest(CandidateSchedules(job))
    IN /\ scheduleOrder' = Append(scheduleOrder, bestSchedule)
       /\ machineFinishTime' =
              [machineFinishTime EXCEPT ![bestSchedule.machineId + 1] = bestSchedule.finishTime]
       /\ jobFinishTime' = Put(jobFinishTime, job, bestSchedule.finishTime)
       /\ job2machineMap' = Put(job2machineMap, job, bestSchedule.machineId)

\* one round of the for loop of earliest-machine schedule()
PlaceEarliestMachine(job) ==
    LET earliestMachine == GetEarliestMachine(machineFinishTime)
        earliestStartTime == EarliestMachineStart(earliestMachine, job)
        finish == earliestStartTime + jobObjs[job].executionTime
    IN /\ machineFinishTime' = [machineFinishTime EXCEPT ![earliestMachine + 1] = finish]
       /\ jobFinishTime' = Put(jobFinishTime, job, finish)
       /\ UNCHANGED <<scheduleOrder, job2machineMap>>

\* schedule(): one round of the for loop over topOrder
Place ==
    /\ pc = "placing"
    /\ cursor <= Len(topOrder)
    /\ LET job == topOrder[cursor]
       IN IF job = NULL \/ numMachines < 1
          THEN /\ pc' = "crashed"
               /\ UNCHANGED <<cursor, machineFinishTime, jobFinishTime,
                              job2machineMap, scheduleOrder, communications>>
          ELSE /\ IF variant = "criticality" THEN PlaceBestFit(job)
                  ELSE PlaceEarliestMachine(job)
               /\ communications' = TouchAll(communications, JobPtrs(jobs))
               /\ cursor' = cursor + 1
               /\ pc' = pc
    /\ UNCHANGED <<dom, jobs, jobObjs, numMachines, variant, inDegrees, pq,
                   jobCriticalWeights, topOrder, returned>>

\* schedule(): makespan
Makespan(mft) ==
    LET RECURSIVE Loop(_, _)
        Loop(i, makespan) ==
            IF i > Len(mft) THEN makespan
            ELSE Loop(i + 1, IF makespan < mft[i] THEN mft[i] ELSE makespan)
    IN Loop(1, 0)

\* what schedule() hands back: {makespan, scheduleOrder} (best-fit) or
\* {makespan, topOrder} (earliest-machine)
Result ==
    [variant |-> variant,
     makespan |-> Makespan(machineFinishTime),
     order |-> IF variant = "criticality" THEN scheduleOrder ELSE topOrder]

\* schedule() returns; its locals die
Return ==
    /\ pc = "placing"
    /\ cursor > Len(topOrder)
    /\ returned' = Append(returned, Result)
    /\ pc' = "idle"
    /\ topOrder' = <<>>
    /\ cursor' = 0
    /\ machineFinishTime' = <<>>
    /\ jobFinishTime' = EmptyMap
    /\ job2machineMap' = EmptyMap
    /\ scheduleOrder' = <<>>
    /\ UNCHANGED <<dom, graphVars, numMachines, variant, inDegrees, pq, jobCriticalWeights>>

\* ------------------------------------------------------------- system
InitIn(universe) ==
    /\ dom = universe
    /\ jobs = <<>>
    /\ jobObjs = EmptyMap
    /\ communications = EmptyMap
    /\ numMachines = 0
    /\ pc = "build"
    /\ variant = "none"
    /\ inDegrees = EmptyMap
    /\ pq = <<>>
    /\ jobCriticalWeights = EmptyMap
    /\ topOrder = <<>>
    /\ cursor = 0
    /\ machineFinishTime = <<>>
    /\ jobFinishTime = EmptyMap
    /\ job2machineMap = EmptyMap
    /\ scheduleOrder = <<>>
    /\ returned = <<>>

Init == \E universe \in {Bounded, Example, Signed, Misuse, Fork} : InitIn(universe)

Next ==
    \/ \E name \in AddJobNames, t \in dom.execTimes, pos \in Positions :
           AddJob(name, t, pos)
    \/ \E f \in EdgeNames, t \in EdgeNames, c \in dom.commTimes,
          pos1 \in EdgePositions, pos2 \in EdgePositions :
           AddCommunication(f, t, c, pos1, pos2)
    \/ \E k \in dom.machineCounts : Construct(k)
    \/ \E v \in Variants : StartSchedule(v)
    \/ SortStep
    \/ Place
    \/ Return

Spec == Init /\ [][Next]_vars

\* ------------------------------------------------------------- properties
\* The graph as the specification speaks of it.
CommSet == LET all == AllComms(communications) IN {all[i] : i \in DOMAIN all}

\* built as the ingestion contract asks: no name added twice, every edge
\* between jobs that were added
WellFormed ==
    /\ NULL \notin JobPtrs(jobs)
    /\ DOMAIN jobObjs = JobPtrs(jobs)
    /\ \A c \in CommSet : c.fromJob \in JobPtrs(jobs) /\ c.toJob \in JobPtrs(jobs)

NonNegativeExec == \A p \in DOMAIN jobObjs : jobObjs[p].executionTime >= 0

NonNegativeComm == \A c \in CommSet : c.commTime >= 0

NonNegativeTimes == NonNegativeExec /\ NonNegativeComm

RECURSIVE Descendants(_)
\* the jobs reachable from the set S by one or more edges
Descendants(S) ==
    LET next == {c.toJob : c \in {d \in CommSet : d.fromJob \in S}}
    IN IF next \subseteq S THEN next ELSE next \cup Descendants(S \cup next)

Acyclic == \A p \in JobPtrs(jobs) \cup {c.fromJob : c \in CommSet} : p \notin Descendants({p})

ValidDag == WellFormed /\ Acyclic /\ NonNegativeTimes

\* the results the calls of one scheduler returned
BestFitResults == {returned[k] : k \in {i \in DOMAIN returned : returned[i].variant = "criticality"}}

EarliestResults == {returned[k] : k \in {i \in DOMAIN returned : returned[i].variant = "makespan"}}

\* the jobs of a result, in the order of the returned sequence
JobsOf(r) ==
    IF r.variant = "criticality" THEN [i \in DOMAIN r.order |-> r.order[i].job]
    ELSE r.order

SumExec(S) ==
    LET RECURSIVE Sum(_)
        Sum(T) == IF T = {} THEN 0
                  ELSE LET p == CHOOSE x \in T : TRUE
                       IN jobObjs[p].executionTime + Sum(T \ {p})
    IN Sum(S)

MaxOf(S) == CHOOSE x \in S : \A y \in S : y <= x

MinOf(S) == CHOOSE x \in S : \A y \in S : x <= y

DuplicateEdge ==
    \E p \in DOMAIN communications : \E i, j \in DOMAIN communications[p] :
        i < j /\ communications[p][i].toJob = communications[p][j].toJob

\* C1: on an acyclic graph with non-negative times and K >= 1, the sequence
\* schedule() returns is a topological order: for every communication edge
\* u -> v, u is in the sequence and every u stands strictly before every v.
\* Both schedulers; an edge inserted twice included.
IsTopologicalOrder(seq) ==
    \A c \in CommSet :
        /\ \E i \in DOMAIN seq : seq[i] = c.fromJob
        /\ \E j \in DOMAIN seq : seq[j] = c.toJob
        /\ \A i, j \in DOMAIN seq : seq[i] = c.fromJob /\ seq[j] = c.toJob => i < j

C1_TopologicalOrder ==
    (ValidDag /\ numMachines >= 1) =>
        \A k \in DOMAIN returned : IsTopologicalOrder(JobsOf(returned[k]))

C1_Witness ==
    /\ ValidDag /\ DuplicateEdge
    /\ BestFitResults # {} /\ EarliestResults # {}
    /\ C1_TopologicalOrder

\* C2: in a best-fit result on an acyclic graph with non-negative times,
\* for every edge p -> j: start(j) >= finish(p) + commTime(p, j) when the
\* two are on different machines, start(j) >= finish(p) when on the same.
RespectsEdges(order) ==
    \A c \in CommSet : \A i, j \in DOMAIN order :
        (order[i].job = c.fromJob /\ order[j].job = c.toJob) =>
            IF order[i].machineId # order[j].machineId
            THEN order[j].startTime >= order[i].finishTime + c.commTime
            ELSE order[j].startTime >= order[i].finishTime

C2_PredecessorDelay == ValidDag => \A r \in BestFitResults : RespectsEdges(r.order)

C2_Witness ==
    /\ ValidDag
    /\ \E r \in BestFitResults :
          /\ \E c \in CommSet : \E i, j \in DOMAIN r.order :
                /\ r.order[i].job = c.fromJob /\ r.order[j].job = c.toJob
                /\ r.order[i].machineId # r.order[j].machineId /\ c.commTime > 0
          /\ \E c \in CommSet : \E i, j \in DOMAIN r.order :
                /\ r.order[i].job = c.fromJob /\ r.order[j].job = c.toJob
                /\ r.order[i].machineId = r.order[j].machineId /\ c.commTime > 0
          /\ RespectsEdges(r.order)

\* C3: in a best-fit result with non-negative execution times, a job starts
\* no earlier than the finish of every job placed before it on its machine,
\* so two jobs of positive execution time on one machine never overlap.
NoOverlap(order) ==
    /\ \A i, j \in DOMAIN order :
          (i < j /\ order[i].machineId = order[j].machineId) =>
              order[j].startTime >= order[i].finishTime
    /\ \A i, j \in DOMAIN order :
          (/\ i # j /\ order[i].machineId = order[j].machineId
           /\ jobObjs[order[i].job].executionTime > 0
           /\ jobObjs[order[j].job].executionTime > 0) =>
              \/ order[i].finishTime <= order[j].startTime
              \/ order[j].finishTime <= order[i].startTime

C3_MachineExclusive ==
    (WellFormed /\ NonNegativeExec) => \A r \in BestFitResults : NoOverlap(r.order)

C3_Witness ==
    /\ WellFormed /\ NonNegativeExec
    /\ \E r \in BestFitResults : \E i, j \in DOMAIN r.order :
          /\ i < j /\ r.order[i].machineId = r.order[j].machineId
          /\ jobObjs[r.order[i].job].executionTime > 0
          /\ jobObjs[r.order[j].job].executionTime > 0
          /\ r.order[j].startTime > 0
          /\ NoOverlap(r.order)

\* C4: on an acyclic graph with unique job names and edges between existing
\* jobs, best-fit schedule() returns exactly one ScheduledJob per job: none
\* missing, none twice.
OncePerJob(order) ==
    /\ {order[i].job : i \in DOMAIN order} = JobPtrs(jobs)
    /\ \A i, j \in DOMAIN order : order[i].job = order[j].job => i = j

C4_OncePerJob == (WellFormed /\ Acyclic) => \A r \in BestFitResults : OncePerJob(r.order)

C4_Witness ==
    /\ WellFormed /\ Acyclic
    /\ Cardinality(JobPtrs(jobs)) = MaxJobs
    /\ \E c, d \in CommSet : c.toJob = d.toJob /\ c.fromJob # d.fromJob
    /\ \E r \in BestFitResults : OncePerJob(r.order)

\* What placing the i-th job of a placement sequence on machine m results
\* in, from the placements before it.  The machine is free when the last
\* job put on it finishes; a predecessor's data arrives from another machine
\* at its finish plus the communication time.  A predecessor on machine m
\* itself delays the job to its finish (onSame) or is left to the machine's
\* load (~onSame).
LoadBefore(order, i, m) ==
    LET on == {j \in 1..(i - 1) : order[j].machineId = m}
    IN IF on = {} THEN 0 ELSE order[MaxOf(on)].finishTime

ArrivalsBefore(order, i, m, onSame) ==
    {order[x[2]].finishTime + (IF order[x[2]].machineId # m THEN x[1].commTime ELSE 0) :
        x \in {y \in CommSet \X (1..(i - 1)) :
                 /\ y[1].toJob = order[i].job
                 /\ y[1].fromJob = order[y[2]].job
                 /\ (onSame \/ order[y[2]].machineId # m)}}

ResultingFinish(order, i, m, onSame) ==
    MaxOf({LoadBefore(order, i, m)} \cup ArrivalsBefore(order, i, m, onSame))
        + jobObjs[order[i].job].executionTime

\* the placement sequences of the best-fit scheduler: the one being built
\* and those returned
BestFitOrders ==
    {r.order : r \in BestFitResults}
        \cup (IF variant = "criticality" /\ pc = "placing" THEN {scheduleOrder} ELSE {})

IsBestFit(order, onSame) ==
    \A i \in DOMAIN order :
        LET finish == [m \in 0..(numMachines - 1) |-> ResultingFinish(order, i, m, onSame)]
            least == MinOf({finish[m] : m \in DOMAIN finish})
        IN /\ order[i].finishTime = least
           /\ order[i].machineId = MinOf({m \in DOMAIN finish : finish[m] = least})

ChainExample(commTime) ==
    /\ dom.id = "example" /\ Len(jobs) = 2 /\ WellFormed
    /\ jobObjs[Lookup(jobs, "A")].executionTime = 5
    /\ jobObjs[Lookup(jobs, "B")].executionTime = 3
    /\ CommSet = {[fromJob |-> Lookup(jobs, "A"), toJob |-> Lookup(jobs, "B"),
                   commTime |-> commTime]}

\* C5: best-fit places each job, in the order processed, on a machine whose
\* resulting finish time for it is minimal over all K machines, the lowest
\* index among those that tie; the chain A(5) -> B(3) with commTime 10 and
\* K = 2 puts B on A's machine, finishing at 8.
C5_BestFit ==
    /\ WellFormed => \A order \in BestFitOrders : IsBestFit(order, FALSE)
    /\ ValidDag => \A order \in BestFitOrders : IsBestFit(order, TRUE)
    /\ (ChainExample(10) /\ numMachines = 2) =>
          \A r \in BestFitResults :
              /\ r.order[2].job = Lookup(jobs, "B")
              /\ r.order[2].machineId = r.order[1].machineId
              /\ r.order[2].finishTime = 8

C5_Witness ==
    /\ ChainExample(10) /\ numMachines = 2
    /\ \E r \in BestFitResults : r.order[2].finishTime = 8 /\ IsBestFit(r.order, TRUE)

\* a tie between machines that the lowest index wins, and a job that a
\* communication time keeps off the emptier machine
C5_TieWitness ==
    /\ ValidDag /\ numMachines = 2
    /\ \E r \in BestFitResults : \E i \in DOMAIN r.order :
          /\ ResultingFinish(r.order, i, 0, TRUE) = ResultingFinish(r.order, i, 1, TRUE)
          /\ LoadBefore(r.order, i, 0) > 0

\* the finish time a machine is left with by a placement sequence
FinalLoad(order, m) == LoadBefore(order, Len(order) + 1, m)

MakespanIsMax(r) ==
    /\ r.makespan = MaxOf({FinalLoad(r.order, m) : m \in 0..(numMachines - 1)})
    /\ r.makespan = IF r.order = <<>> THEN 0
                    ELSE MaxOf({r.order[i].finishTime : i \in DOMAIN r.order})

\* C6: the makespan best-fit schedule() returns is the maximum over the K
\* machines of the machine's final finish time, and that is the maximum
\* finishTime over the placed jobs (0 when the graph has no jobs).
C6_Makespan == numMachines >= 1 => \A r \in BestFitResults : MakespanIsMax(r)

\* addJob("A", -1), K = 1: the job finishes at -1 on machine 0, whose final
\* finish time is -1, and schedule() returns 0
C6_NegativeJob ==
    /\ Len(jobs) = 1 /\ numMachines = 1
    /\ \E r \in BestFitResults :
          /\ Len(r.order) = 1
          /\ jobObjs[r.order[1].job].executionTime = -1
          /\ r.order[1].finishTime = -1
          /\ FinalLoad(r.order, 0) = -1
          /\ r.makespan = 0

\* C6 holds of the graphs whose execution times are not negative
C6_NonNegative == NonNegativeExec => C6_Makespan

C6_NonNegativeWitness ==
    /\ NonNegativeExec /\ numMachines = MaxMachines
    /\ \E r \in BestFitResults :
          /\ r.makespan > 0
          /\ \E m \in 0..(numMachines - 1) : FinalLoad(r.order, m) < r.makespan

\* C7: every ScheduledJob of best-fit schedule() has
\* finishTime = startTime + the job's executionTime.
C7_FinishIsStartPlusExec ==
    \A order \in BestFitOrders : \A i \in DOMAIN order :
        order[i].finishTime = order[i].startTime + jobObjs[order[i].job].executionTime

C7_Witness ==
    \E r \in BestFitResults : \E i \in DOMAIN r.order :
        /\ r.order[i].startTime > 0
        /\ jobObjs[r.order[i].job].executionTime > 0
        /\ r.order[i].finishTime = r.order[i].startTime + jobObjs[r.order[i].job].executionTime

\* C8: with K >= 1, every ScheduledJob of best-fit schedule() has
\* 0 <= machineId < K.
C8_MachineInRange ==
    numMachines >= 1 =>
        \A order \in BestFitOrders : \A i \in DOMAIN order :
            order[i].machineId \in 0..(numMachines - 1)

C8_Witness ==
    /\ numMachines = MaxMachines
    /\ \E r \in BestFitResults :
          {r.order[i].machineId : i \in DOMAIN r.order} = 0..(numMachines - 1)

\* C9: with K = 1 and an acyclic graph with non-negative times, best-fit
\* schedule() puts every job on machine 0 and returns the sum of all jobs'
\* execution times, whatever the communication times; A(5) -> B(3) with
\* commTime 2 gives 8.
C9_SingleMachine ==
    /\ (numMachines = 1 /\ ValidDag) =>
          \A r \in BestFitResults :
              /\ \A i \in DOMAIN r.order : r.order[i].machineId = 0
              /\ r.makespan = SumExec(JobPtrs(jobs))
    /\ (numMachines = 1 /\ ChainExample(2)) =>
          \A r \in BestFitResults : r.makespan = 8

C9_Witness ==
    /\ numMachines = 1 /\ ChainExample(2)
    /\ \E r \in BestFitResults : r.makespan = 8 /\ Len(r.order) = 2

C11_CycleRejected ==
    (WellFormed /\ ~Acyclic) =>
        \A k \in DOMAIN returned : Len(returned[k].order) >= Len(jobs)

\* A -> B -> A: schedule() returns makespan 0 and no placement
C11_PartialResult ==
    /\ WellFormed /\ Len(jobs) = 2
    /\ \E a, b \in JobPtrs(jobs) :
          /\ a # b
          /\ {<<c.fromJob, c.toJob>> : c \in CommSet} = {<<a, b>>, <<b, a>>}
    /\ \E r \in BestFitResults : r.order = <<>> /\ r.makespan = 0

\* C12: addCommunication with a name never passed to addJob is rejected and
\* leaves the graph unchanged: the job map gets no entry without a job, and
\* no edge with such an endpoint is stored.
C12_UnknownRejected ==
    /\ NULL \notin JobPtrs(jobs)
    /\ \A c \in CommSet : c.fromJob # NULL /\ c.toJob # NULL

\* addJob("A", _); addCommunication("A", "B", _): the job map holds "B" with
\* no job, and the edge A -> nullptr is stored
C12_PhantomJob ==
    /\ Len(jobs) = 2 /\ DOMAIN jobObjs = {1}
    /\ Lookup(jobs, "B") = NULL
    /\ \E c \in CommSet : c.fromJob = Lookup(jobs, "A") /\ c.toJob = NULL

\* C13: a scheduler is not constructed with machine count K <= 0, so
\* schedule() never runs with zero or a negative number of machines.
C13_MachineCountRejected == pc # "build" => numMachines >= 1

\* addJob("A", 1), K = 0: the scheduler is constructed, schedule() runs and
\* reads candidateSchedules.front() of an empty vector
C13_ZeroMachines ==
    /\ WellFormed /\ Len(jobs) = 1 /\ CommSet = {}
    /\ numMachines = 0 /\ variant = "criticality"
    /\ topOrder = <<Lookup(jobs, "A")>>
    /\ pc = "crashed"

\* C14: addJob with a negative executionTime and addCommunication with a
\* negative commTime are rejected, so every job and every edge stored in the
\* graph has a non-negative time.
C14_NegativeRejected ==
    /\ \A p \in DOMAIN jobObjs : jobObjs[p].executionTime >= 0
    /\ \A p \in DOMAIN communications : \A i \in DOMAIN communications[p] :
          communications[p][i].commTime >= 0

\* addJob("A", -1); addJob("B", 1); addCommunication("A", "B", -1): both
\* negative times are stored
C14_NegativeStored ==
    /\ WellFormed /\ Len(jobs) = 2
    /\ jobObjs[Lookup(jobs, "A")].executionTime = -1
    /\ communications[Lookup(jobs, "A")] =
          <<[fromJob |-> Lookup(jobs, "A"), toJob |-> Lookup(jobs, "B"), commTime |-> -1]>>

\* no call named a job that was never added
NoUnknownName ==
    /\ NULL \notin JobPtrs(jobs)
    /\ \A c \in CommSet : c.fromJob # NULL /\ c.toJob # NULL

\* C15: after addJob is called again with a name that exists, the edges of
\* the earlier job are not lost: every stored communication has both
\* endpoints among the jobs of the job map, and schedule() on an acyclic
\* edge set places every job of the job map.
C15_EdgesKept ==
    NoUnknownName =>
        /\ \A c \in CommSet : c.fromJob \in JobPtrs(jobs) /\ c.toJob \in JobPtrs(jobs)
        /\ Acyclic =>
              \A k \in DOMAIN returned :
                  \A p \in JobPtrs(jobs) :
                      \E i \in DOMAIN JobsOf(returned[k]) : JobsOf(returned[k])[i] = p

\* addJob("A"); addJob("B"); addCommunication("A", "B"); addJob("A"): the
\* edge still starts at the first A, which the job map no longer holds, and
\* schedule() returns the second A alone
C15_LostEdge ==
    /\ NoUnknownName /\ Acyclic /\ Len(jobs) = 2
    /\ DOMAIN jobObjs = {1, 2, 3}
    /\ CommSet = {[fromJob |-> 1, toJob |-> 2, commTime |-> 1]}
    /\ Lookup(jobs, "A") = 3 /\ Lookup(jobs, "B") = 2
    /\ \E r \in BestFitResults : JobsOf(r) = <<3>>

\* C16: schedule() terminates on every finite graph, acyclic or cyclic: the
\* loop of the topological sort ends and the critical-weight recursion the
\* comparator starts returns.  (On a graph built from added jobs only and
\* with K >= 1, nothing but that recursion keeps a call from returning.)
C16_Terminates == (WellFormed /\ numMachines >= 1) => pc # "crashed"

\* jobs A, B, C with A -> B and B -> B: A and C are both ready at the start,
\* the comparator is asked for A's weight, and the recursion enters B
\* without end
C16_EndlessRecursion ==
    /\ WellFormed /\ numMachines >= 1 /\ Len(jobs) = 3
    /\ \E a, b \in JobPtrs(jobs) :
          /\ a # b
          /\ {<<c.fromJob, c.toJob>> : c \in CommSet} = {<<a, b>>, <<b, b>>}
    /\ variant = "criticality"
    /\ topOrder = <<>>
    /\ pc = "crashed"

\* C17 as the specification states it: on every acyclic graph with
\* non-negative times and K >= 1, the makespan of the best-fit scheduler is
\* at most the makespan of the earliest-machine scheduler.
C17_Dominates ==
    (ValidDag /\ numMachines >= 1) =>
        \A b \in BestFitResults : \A e \in EarliestResults : b.makespan <= e.makespan

\* C17: on an acyclic graph with non-negative times, the makespan of the
\* best-fit scheduler is at most the makespan of the earliest-machine
\* scheduler when K = 1 or the graph has no edge.
C17_DominatesSingleOrEdgeless ==
    (ValidDag /\ (numMachines = 1 \/ (numMachines >= 1 /\ CommSet = {}))) =>
        \A b \in BestFitResults : \A e \in EarliestResults : b.makespan <= e.makespan

\* both schedulers have returned on one machine, and the communication time
\* the earliest-machine scheduler charges makes its makespan the larger
C17_Witness ==
    /\ ValidDag /\ numMachines = 1
    /\ \E b \in BestFitResults : \E e \in EarliestResults : b.makespan < e.makespan

\* both schedulers have returned on an edgeless graph with more jobs than
\* machines
C17_EdgelessWitness ==
    /\ ValidDag /\ numMachines = MaxMachines /\ CommSet = {}
    /\ Len(jobs) > numMachines
    /\ \E b \in BestFitResults : \E e \in EarliestResults :
          b.makespan = e.makespan /\ b.makespan > MaxTime

\* A(1), B(1), C(2), D(2) with B -> C and B -> D at no communication time,
\* K = 2: best-fit returns 4, earliest-machine returns 3
C17_ForkExample ==
    /\ dom.id = "fork" /\ ValidDag /\ numMachines = 2 /\ Len(jobs) = 4
    /\ \E b \in BestFitResults : \E e \in EarliestResults :
          b.makespan = 4 /\ e.makespan = 3

IndependentJobs(r) ==
    /\ numMachines >= Len(jobs) =>
          r.makespan = MaxOf({jobObjs[p].executionTime : p \in JobPtrs(jobs)})
    /\ numMachines = 1 => r.makespan = SumExec(JobPtrs(jobs))

\* C18: on a graph with no edges and K >= the number of jobs, best-fit
\* schedule() returns the largest execution time among the jobs, and with
\* K = 1 the sum of the execution times; A(5), B(3) gives 5 with K = 2 and
\* 8 with K = 1.
C18_Independent ==
    (WellFormed /\ CommSet = {} /\ Len(jobs) >= 1) =>
        \A r \in BestFitResults : IndependentJobs(r)

\* addJob("A", -1), K = 1: schedule() returns 0, the largest execution time
\* is -1
C18_NegativeJob ==
    /\ WellFormed /\ CommSet = {} /\ Len(jobs) = 1 /\ numMachines = 1
    /\ jobObjs[Lookup(jobs, "A")].executionTime = -1
    /\ \E r \in BestFitResults : r.makespan = 0 /\ Len(r.order) = 1

\* C18 holds when no execution time is negative
C18_NonNegative == NonNegativeExec => C18_Independent

\* A(5), B(3) without edges: 5 on two machines
C18_ExampleWitness ==
    /\ dom.id = "example" /\ WellFormed /\ CommSet = {}
    /\ Len(jobs) = 2 /\ numMachines = 2
    /\ jobObjs[Lookup(jobs, "A")].executionTime = 5
    /\ jobObjs[Lookup(jobs, "B")].executionTime = 3
    /\ \E r \in BestFitResults : r.makespan = 5

\* the jobs already emitted by the running topological sort
Emitted == {topOrder[i] : i \in DOMAIN topOrder}

\* the jobs ready at this step: every predecessor emitted, itself not yet
Ready ==
    {p \in JobPtrs(jobs) :
        /\ p \notin Emitted
        /\ \A c \in CommSet : c.toJob = p => c.fromJob \in Emitted}

\* criticalWeight in the criticality scheduler, maxMakespanWeight in the
\* makespan-weight scheduler
Weight(v, job) == PriorityWeight(v, job, EmptyMap).w

\* C19: at every emission step of the topological sort, the job emitted
\* (the top of the queue) is a ready job whose priority weight is greater
\* than or equal to the weight of every other ready job.
C19_HighestWeightFirst ==
    (WellFormed /\ pc = "sorting") =>
        /\ pq[1] \in Ready
        /\ \A p \in Ready : Weight(variant, pq[1]) >= Weight(variant, p)

\* an emission after an earlier one, with three ready jobs of which one
\* weighs less than the job at the top
C19_Witness ==
    /\ WellFormed /\ pc = "sorting"
    /\ topOrder # <<>>
    /\ Cardinality(Ready) >= 3
    /\ \E p \in Ready : Weight(variant, pq[1]) > Weight(variant, p)
    /\ C19_HighestWeightFirst

RECURSIVE PathLengths(_)
\* the lengths of the paths from job to a sink: the execution times of the
\* jobs on the path plus the communication times of its edges
PathLengths(job) ==
    IF GetOutCommunications(job) = <<>> THEN {jobObjs[job].executionTime}
    ELSE UNION {{jobObjs[job].executionTime + c.commTime + l : l \in PathLengths(c.toJob)} :
                   c \in {d \in CommSet : d.fromJob = job}}

LongestPath(job) == MaxOf(PathLengths(job))

\* C20: on an acyclic graph with non-negative times getJobCriticalWeight(job)
\* is the length of the longest weighted path from job to a sink, and the
\* memoized value a later call returns is the value of the first call.
C20_CriticalWeightIsLongestPath ==
    ValidDag =>
        /\ \A p \in DOMAIN jobCriticalWeights : jobCriticalWeights[p] = LongestPath(p)
        /\ \A p \in JobPtrs(jobs) :
              /\ GetJobCriticalWeight(p, EmptyMap, {}).w = LongestPath(p)
              /\ GetJobCriticalWeight(p, jobCriticalWeights, {}).w = LongestPath(p)
              /\ GetJobCriticalWeight(p, GetJobCriticalWeight(p, EmptyMap, {}).memo, {}).w
                    = GetJobCriticalWeight(p, EmptyMap, {}).w

\* the comparator has stored the weight of a job with two paths to a sink
\* of different lengths, the longer one not the one of the first edge
C20_Witness ==
    /\ ValidDag /\ pc = "sorting" /\ variant = "criticality"
    /\ \E p \in DOMAIN jobCriticalWeights :
          /\ Cardinality(PathLengths(p)) >= 2
          /\ Len(communications[p]) = 2
          /\ communications[p][1].commTime + LongestPath(communications[p][1].toJob)
                < communications[p][2].commTime + LongestPath(communications[p][2].toJob)
          /\ jobCriticalWeights[p] = LongestPath(p)

\* the jobs the running schedule() call has placed so far
Placed == {topOrder[i] : i \in 1..(cursor - 1)}

\* C21: in the earliest-machine scheduler an edge's communication time
\* delays the successor only when predecessor and successor run on different
\* machines.  With one machine every predecessor shares the successor's
\* machine, so each job starts at the machine's load: the load is the sum of
\* the execution times of the jobs placed, and the makespan returned is the
\* sum of all execution times.
C21_CommOnlyAcrossMachines ==
    (ValidDag /\ numMachines = 1) =>
        /\ (variant = "makespan" /\ pc = "placing") =>
              machineFinishTime[1] = SumExec(Placed)
        /\ \A r \in EarliestResults : r.makespan = SumExec(JobPtrs(jobs))

\* the chain A(5) -> B(3) with communication time 2 on one machine: the
\* earliest-machine scheduler returns 10, the best-fit scheduler 8
C21_CommCharged ==
    /\ ValidDag /\ numMachines = 1 /\ ChainExample(2)
    /\ \E r \in EarliestResults : r.makespan = 10
    /\ \E r \in BestFitResults : r.makespan = 8

\* WorkflowGraph::getPredecessors
GetPredecessors(job) ==
    LET in == GetInCommunications(job)
    IN [i \in 1..Len(in) |-> in[i].fromJob]

\* the vector an addCommunication step has appended to, and the
\* Communication it appended
AppendedTo ==
    CHOOSE s \in DOMAIN communications' :
        s \notin DOMAIN communications \/ communications'[s] # communications[s]

Appended == communications'[AppendedTo][Len(communications'[AppendedTo])]

\* C22: getPredecessors(job) lists the sources of the job's incoming edges
\* and getSuccessors(job) the targets of its outgoing edges in the order
\* addCommunication inserted them, one entry per edge: an addCommunication
\* between two added jobs puts its source last in the predecessors of its
\* target and its target last in the successors of its source, and leaves
\* every other list as it was.
C22_EdgeInsertionOrder ==
    [][(pc = "build" /\ WellFormed /\ WellFormed' /\ communications' # communications
            /\ jobs' = jobs)
        => \A p \in JobPtrs(jobs) :
              /\ GetPredecessors(p)' =
                    IF p = Appended.toJob
                    THEN Append(GetPredecessors(p), Appended.fromJob)
                    ELSE GetPredecessors(p)
              /\ GetSuccessors(p)' =
                    IF p = Appended.fromJob
                    THEN Append(GetSuccessors(p), Appended.toJob)
                    ELSE GetSuccessors(p)]_vars

\* a job with two incoming edges from two sources: getPredecessors lists
\* the sources in the order the job map iterates them, whichever of the two
\* edges was inserted first
C22_MapOrder ==
    /\ WellFormed /\ Acyclic /\ pc = "build"
    /\ \E p \in JobPtrs(jobs) :
          /\ Len(GetPredecessors(p)) = 2
          /\ GetPredecessors(p)[1] # GetPredecessors(p)[2]
          /\ \E i, j \in DOMAIN jobs :
                i < j /\ jobs[i].ptr = GetPredecessors(p)[1] /\ jobs[j].ptr = GetPredecessors(p)[2]

\* nothing of a schedule() call is left: the locals of topologicalSort and
\* of schedule() are gone
NoRunState ==
    /\ inDegrees = EmptyMap /\ pq = <<>> /\ jobCriticalWeights = EmptyMap
    /\ topOrder = <<>> /\ machineFinishTime = <<>>
    /\ jobFinishTime = EmptyMap /\ job2machineMap = EmptyMap /\ scheduleOrder = <<>>

\* C23: on a graph built with unique job names and edges between added
\* jobs, no step of a schedule() call changes the graph (the job map, the
\* Job objects with their execution times, the outgoing-edge vectors: the
\* lookups insert nothing), and when the call returns nothing of its
\* per-run state is left.
C23_GraphUnchanged ==
    [][(pc # "build" /\ WellFormed) =>
          /\ jobs' = jobs
          /\ jobObjs' = jobObjs
          /\ communications' = communications
          /\ (pc' = "idle" => NoRunState')]_vars

\* both schedulers have run to their return on a graph with MaxJobs jobs,
\* MaxComms edges and a job two others lead to; the outgoing-edge map holds
\* the added jobs and no other key
C23_Witness ==
    /\ WellFormed /\ pc = "idle"
    /\ Len(jobs) = MaxJobs /\ Cardinality(CommSet) = MaxComms
    /\ \E c, d \in CommSet : c.toJob = d.toJob /\ c.fromJob # d.fromJob
    /\ BestFitResults # {} /\ EarliestResults # {}
    /\ \A r \in BestFitResults \cup EarliestResults : Len(r.order) = MaxJobs
    /\ DOMAIN communications = JobPtrs(jobs)
    /\ NoRunState

====
